---- MODULE Spec2Model ----
(***************************************************************************)
(* Inventory reservation and order management backend                      *)
(* (inventory/models.py, views.py, tasks.py, serializers.py and the        *)
(* cleanup_reservations management command).                               *)
(*                                                                         *)
(* The variables products, reservations, orders and audit are the          *)
(* COMMITTED contents of the database tables.  A unit of work that runs    *)
(* inside transaction.atomic() keeps its writes in its own record (a       *)
(* private copy of the product row, pending reservation rows, pending      *)
(* audit rows) and publishes them in the step that commits; a rollback     *)
(* drops them.  select_for_update() is the per-product row lock `lock'.    *)
(***************************************************************************)
EXTENDS Integers, Sequences, FiniteSets, TLC

\* ------------------------------------------------------------------ bounds
InitialStock == 2
MaxQuantity == 2
NumPurchasers == 2
MaxTime == 20
ChaosProcesses == 5
ChaosStock == 2
NumOrderRequests == 2
LiveMaxTime == 40

\* ------------------------------------------------------- program constants
\* timedelta(minutes=10), the time-to-live of a reservation made by purchase
TTL == 10

ProductIds == {1, 2}
Quantities == 0..MaxQuantity
Purchasers == 1..NumPurchasers
\* The two entry points of reclamation: the Celery task and the command.
Reclaimers == {"task", "command"}
\* No unit of work holds the row lock.
Free == "free"
Users == {"user@example.com"}
OrderRequests == 1..NumOrderRequests
\* Order rows do not interact with each other: the model follows one row.
OrderIdSpace == {1}

VARIABLES
    products,           \* Product rows, by id
    reservations,       \* Reservation rows
    nextReservationId,  \* the next Reservation id
    orders,             \* Order rows, by id
    nextOrderId,        \* the next Order id
    audit,              \* AuditLog rows, in commit order
    lock,               \* select_for_update: the holder of each product row
    now,                \* timezone.now()
    pur,                \* the purchase requests (ReservationViewSet create)
    rec,                \* the reclamation runs (Celery task, command)
    ord,                \* the order requests (OrderViewSet)
    upd,                \* the product update request (ProductViewSet)
    outcomes            \* how many purchases ended in each way

stockVars == <<products, reservations, nextReservationId, lock, now, pur, rec,
               outcomes>>
orderVars == <<orders, nextOrderId, ord>>
vars == <<stockVars, orderVars, audit, upd>>

Max(a, b) == IF a >= b THEN a ELSE b
Min(a, b) == IF a <= b THEN a ELSE b

\* A JSON null in AuditLog.old_value / new_value.
Null == [null |-> TRUE]

\* ----------------------------------------------------------------- Product
\* Product.save: the values after the two max(0, ...) clamps.
SaveClamp(row) ==
    [row EXCEPT !.available_stock = Max(0, row.available_stock),
                !.reserved_stock = Max(0, row.reserved_stock)]

\* Product.save without its closing check: the clamps alone, no ValueError.
SaveNeverRaises(row) == FALSE

\* Product.save checking the sum before the two clamps instead of after.
SaveRaisesUnclamped(row) ==
    row.available_stock + row.reserved_stock # row.total_stock

\* Product.save raises ValueError when the clamped row breaks the invariant.
SaveRaises(row) ==
    SaveClamp(row).available_stock + SaveClamp(row).reserved_stock
        # row.total_stock

\* ---------------------------------------------------------------- AuditLog
AuditEntry(actor, action, object_type, object_id, old_value, new_value) ==
    [actor |-> actor, action |-> action, object_type |-> object_type,
     object_id |-> object_id, old_value |-> old_value, new_value |-> new_value]

StockValue(a, r) == [available_stock |-> a, reserved_stock |-> r]

\* ------------------------------------------------------------------- Init
IdlePurchase ==
    [pc |-> "idle", product_id |-> 0, quantity |-> 0, user |-> "",
     product |-> Null]

IdleOrder ==
    [pc |-> "idle", id |-> 0, user |-> "", instance |-> Null,
     product |-> Null, data |-> Null, outcome |-> "none"]

IdleReclaim ==
    [pc |-> "idle", expired |-> {}, reservation |-> Null, product |-> Null]

IdleUpdate ==
    [pc |-> "idle", product_id |-> 0, instance |-> Null, data |-> Null,
     outcome |-> "none"]

Init ==
    /\ products = [i \in ProductIds |->
                      [price |-> 10 * i, total_stock |-> InitialStock,
                       available_stock |-> InitialStock, reserved_stock |-> 0]]
    /\ reservations = {}
    /\ nextReservationId = 1
    /\ audit = <<>>
    /\ lock = [i \in ProductIds |-> Free]
    /\ now = 0
    /\ pur = [p \in Purchasers |-> IdlePurchase]
    /\ rec = [r \in Reclaimers |-> IdleReclaim]
    /\ outcomes = [created |-> 0, insufficient |-> 0, error |-> 0]
    /\ orders = {}
    /\ nextOrderId = 1
    /\ ord = [o \in OrderRequests |-> IdleOrder]
    /\ upd = IdleUpdate

\* ------------------------------------------- ReservationViewSet.perform_create
\* The statements of the atomic block that write, in program order.
PurchaseSteps ==
    <<"product_save", "stock_audit", "reservation_save", "reservation_audit">>

\* A purchase booked as a sale: the units leave available_stock and
\* total_stock, and reserved_stock stays.
AdjustedAsSale(product, quantity) ==
    [product EXCEPT !.available_stock = product.available_stock - quantity,
                    !.total_stock = product.total_stock - quantity]

\* product.available_stock -= quantity; product.reserved_stock += quantity
Adjusted(product, quantity) ==
    [product EXCEPT !.available_stock = product.available_stock - quantity,
                    !.reserved_stock = product.reserved_stock + quantity]

\* serializer.save without the timedelta: the row expires as it is made.
NewReservationNoTTL(p) ==
    [id |-> nextReservationId, user |-> pur[p].user,
     product |-> pur[p].product_id, quantity |-> pur[p].quantity,
     expires_at |-> now]

\* The row serializer.save(user=user, expires_at=now + 10 minutes) inserts.
NewReservation(p) ==
    [id |-> nextReservationId, user |-> pur[p].user,
     product |-> pur[p].product_id, quantity |-> pur[p].quantity,
     expires_at |-> now + TTL]

\* A purchase that writes its stock_adjusted audit row only.
PurchaseAuditStockOnly(p) ==
    LET product == pur[p].product
        saved == SaveClamp(Adjusted(product, pur[p].quantity))
    IN  << AuditEntry(pur[p].user, "stock_adjusted", "Product",
               pur[p].product_id,
               StockValue(product.available_stock, product.reserved_stock),
               StockValue(saved.available_stock, saved.reserved_stock)) >>

\* The two AuditLog.objects.create calls of a purchase, in program order.
PurchaseAudit(p) ==
    LET product == pur[p].product
        saved == SaveClamp(Adjusted(product, pur[p].quantity))
    IN  << AuditEntry(pur[p].user, "stock_adjusted", "Product",
               pur[p].product_id,
               StockValue(product.available_stock, product.reserved_stock),
               StockValue(saved.available_stock, saved.reserved_stock)),
           AuditEntry(pur[p].user, "reservation_created", "Reservation",
               NewReservation(p).id, Null,
               [product |-> pur[p].product_id, quantity |-> pur[p].quantity]) >>

\* The writes the transaction of purchase p holds after its first n writing
\* statements: the product row, the reservation rows, the audit rows.
PurchaseWrites(p, n) ==
    [product |-> IF n >= 1
                 THEN SaveClamp(Adjusted(pur[p].product, pur[p].quantity))
                 ELSE products[pur[p].product_id],
     reservations |-> IF n >= 3 THEN {NewReservation(p)} ELSE {},
     audit |-> IF n >= 4 THEN PurchaseAudit(p)
               ELSE IF n >= 2 THEN SubSeq(PurchaseAudit(p), 1, 1)
               ELSE <<>>]

\* The end of a purchase: the transaction is over, the row lock is released.
PurchaseEnd(p, outcome) ==
    /\ pur' = [pur EXCEPT ![p] = [IdlePurchase EXCEPT !.pc = "done"]]
    /\ outcomes' = [outcomes EXCEPT ![outcome] = @ + 1]
    /\ lock' = [lock EXCEPT ![pur[p].product_id] = Free]

\* Leaving the atomic block without an exception commits its writes.
Commit(w, pid) ==
    /\ products' = [products EXCEPT ![pid] = w.product]
    /\ reservations' = reservations \cup w.reservations
    /\ nextReservationId' = nextReservationId + Cardinality(w.reservations)
    /\ audit' = audit \o w.audit

\* The block without transaction.atomic(): each write is durable as it is
\* made, and an exception leaves the writes made before it in place.
RollbackKeepsWrites(w, pid) == Commit(w, pid)

\* Leaving the atomic block with an exception rolls its writes back.
Rollback(w, pid) ==
    UNCHANGED <<products, reservations, nextReservationId, audit>>

\* The read without select_for_update(): no row lock is waited for.
PurchaseLockNoRowLock(p, pid, q, u) ==
    /\ pur[p].pc = "idle"
    /\ lock' = [lock EXCEPT ![pid] = "purchase"]
    /\ pur' = [pur EXCEPT ![p] = [@ EXCEPT !.pc = "locked", !.product_id = pid,
                                           !.quantity = q, !.user = u,
                                           !.product = products[pid]]]
    /\ UNCHANGED <<products, reservations, nextReservationId, audit, now, rec,
                   outcomes, orderVars, upd>>

\* transaction.atomic(); Product.objects.select_for_update().get(id=product_id)
PurchaseLock(p, pid, q, u) ==
    /\ pur[p].pc = "idle"
    /\ lock[pid] = Free
    /\ lock' = [lock EXCEPT ![pid] = "purchase"]
    /\ pur' = [pur EXCEPT ![p] = [@ EXCEPT !.pc = "locked", !.product_id = pid,
                                           !.quantity = q, !.user = u,
                                           !.product = products[pid]]]
    /\ UNCHANGED <<products, reservations, nextReservationId, audit, now, rec,
                   outcomes, orderVars, upd>>

\* The stock check made against total_stock instead of available_stock.
InsufficientStockOfTotal(product, quantity) == product.total_stock < quantity

\* if product.available_stock < quantity: raise ValidationError
InsufficientStock(product, quantity) == product.available_stock < quantity

\* The body of the atomic block, run under the row lock up to its commit:
\* the stock check, the adjustment and product.save(), the stock_adjusted
\* audit row, the reservation row and the reservation_created audit row.
PurchaseRun(p) ==
    /\ pur[p].pc = "locked"
    /\ IF InsufficientStock(pur[p].product, pur[p].quantity)
       THEN /\ Rollback(PurchaseWrites(p, 0), pur[p].product_id)
            /\ PurchaseEnd(p, "insufficient")
       ELSE IF SaveRaises(Adjusted(pur[p].product, pur[p].quantity))
       THEN /\ Rollback(PurchaseWrites(p, 0), pur[p].product_id)
            /\ PurchaseEnd(p, "error")
       ELSE /\ Commit(PurchaseWrites(p, 4), pur[p].product_id)
            /\ PurchaseEnd(p, "created")
    /\ UNCHANGED <<now, rec, orderVars, upd>>

\* The n-th writing statement of the block raises (the store is unavailable)
\* after the stock check passed: the exception leaves the atomic block and
\* the n-1 writes made so far are rolled back.
PurchaseFault(p, n) ==
    /\ pur[p].pc = "locked"
    /\ ~InsufficientStock(pur[p].product, pur[p].quantity)
    /\ Rollback(PurchaseWrites(p, n - 1), pur[p].product_id)
    /\ PurchaseEnd(p, "error")
    /\ UNCHANGED <<now, rec, orderVars, upd>>

Purchase(p) ==
    \/ \E pid \in ProductIds, q \in Quantities, u \in Users :
           PurchaseLock(p, pid, q, u)
    \/ PurchaseRun(p)

\* The filter written with __lte: a reservation is taken at its expiry time.
ExpiredAtInclusive(t) == {x \in reservations : x.expires_at <= t}

\* -------------------- cleanup_expired_reservations / Command.handle
\* Reservation.objects.filter(expires_at__lt=now): the matching rows.
ExpiredAt(t) == {x \in reservations : x.expires_at < t}

\* The quantity moved back: the command clamps it to reserved_stock
\* (released_quantity = min(...)), the task uses reservation.quantity as is.
ReleasedQuantity(r, reservation, product) ==
    IF r = "command"
    THEN Min(reservation.quantity, product.reserved_stock)
    ELSE reservation.quantity

\* A release that gives the units back without taking them off reserved_stock.
ReleasedAvailableOnly(product, released) ==
    [product EXCEPT !.available_stock = product.available_stock + released]

\* product.available_stock += released; product.reserved_stock -= released
Released(product, released) ==
    [product EXCEPT !.available_stock = product.available_stock + released,
                    !.reserved_stock = product.reserved_stock - released]

\* The stock_adjusted row of a reclamation written from the reservation's
\* quantity instead of the values product.save() stored.
ReclaimAuditRequested(reservation, product, saved) ==
    << AuditEntry("System", "stock_adjusted", "Product", reservation.product,
           StockValue(product.available_stock, product.reserved_stock),
           StockValue(product.available_stock + reservation.quantity,
                      product.reserved_stock - reservation.quantity)),
       AuditEntry("System", "reservation_expired", "Reservation",
           reservation.id, [status |-> "active"], [status |-> "expired"]) >>

\* The two AuditLog.objects.create calls of one reclamation, in program order.
ReclaimAudit(reservation, product, saved) ==
    << AuditEntry("System", "stock_adjusted", "Product", reservation.product,
           StockValue(product.available_stock, product.reserved_stock),
           StockValue(saved.available_stock, saved.reserved_stock)),
       AuditEntry("System", "reservation_expired", "Reservation",
           reservation.id, [status |-> "active"], [status |-> "expired"]) >>

\* The queryset is evaluated once, when the for loop starts: `expired' holds
\* the rows fetched and not yet iterated.  The query has no ORDER BY, so the
\* loop may meet them in any order.
ReclaimFetch(r) ==
    /\ rec[r].pc = "idle"
    /\ rec' = [rec EXCEPT ![r] =
                  [@ EXCEPT !.pc = IF ExpiredAt(now) = {}
                                   THEN "idle" ELSE "running",
                            !.expired = ExpiredAt(now)]]
    /\ UNCHANGED <<products, reservations, nextReservationId, audit, lock, now,
                   pur, outcomes, orderVars, upd>>

\* The loop takes its next row; transaction.atomic();
\* Product.objects.select_for_update().get(id=reservation.product.id)
ReclaimLock(r) ==
    /\ rec[r].pc = "running"
    /\ \E reservation \in rec[r].expired :
          /\ lock[reservation.product] = Free
          /\ lock' = [lock EXCEPT ![reservation.product] = r]
          /\ rec' = [rec EXCEPT ![r] =
                        [pc |-> "locked",
                         expired |-> rec[r].expired \ {reservation},
                         reservation |-> reservation,
                         product |-> products[reservation.product]]]
    /\ UNCHANGED <<products, reservations, nextReservationId, audit, now, pur,
                   outcomes, orderVars, upd>>

\* A return inside the for loop: the pass ends after its first reservation.
ReclaimNextStops(r) ==
    rec' = [rec EXCEPT ![r] = IdleReclaim]

\* The pass goes on to its next row, or ends when none is left.
ReclaimNext(r) ==
    rec' = [rec EXCEPT ![r] =
               [IdleReclaim EXCEPT !.pc = IF rec[r].expired = {}
                                          THEN "idle" ELSE "running",
                                   !.expired = rec[r].expired]]

\* transaction.atomic() opened around the whole for loop instead of inside
\* it: the row locks taken for the reservations of a pass are all kept until
\* the pass ends.
ReclaimApplyOneTransaction(r) ==
    /\ rec[r].pc = "locked"
    /\ LET reservation == rec[r].reservation
           product == rec[r].product
           adjusted == Released(product,
                                ReleasedQuantity(r, reservation, product))
           released == [i \in ProductIds |->
                           IF lock[i] = r THEN Free ELSE lock[i]]
       IN  IF SaveRaises(adjusted)
           THEN /\ rec' = [rec EXCEPT ![r] = IdleReclaim]
                /\ lock' = released
                /\ UNCHANGED <<products, reservations, audit>>
           ELSE /\ products' = [products EXCEPT ![reservation.product] =
                                   SaveClamp(adjusted)]
                /\ audit' = audit \o
                     ReclaimAudit(reservation, product, SaveClamp(adjusted))
                /\ reservations' =
                     {x \in reservations : x.id # reservation.id}
                /\ lock' = IF rec[r].expired = {} THEN released ELSE lock
                /\ ReclaimNext(r)
    /\ UNCHANGED <<nextReservationId, now, pur, outcomes, orderVars, upd>>

\* The body of the atomic block for one reservation, up to its commit:
\* the release, product.save(), the two audit rows, reservation.delete()
\* (a DELETE by primary key, which is no error when the row is gone).
\* ValueError from product.save() rolls the block back and, caught nowhere,
\* ends the whole pass.
ReclaimApply(r) ==
    /\ rec[r].pc = "locked"
    /\ LET reservation == rec[r].reservation
           product == rec[r].product
           adjusted == Released(product,
                                ReleasedQuantity(r, reservation, product))
       IN  /\ lock' = [lock EXCEPT ![reservation.product] = Free]
           /\ IF SaveRaises(adjusted)
              THEN /\ rec' = [rec EXCEPT ![r] = IdleReclaim]
                   /\ UNCHANGED <<products, reservations, audit>>
              ELSE /\ products' = [products EXCEPT ![reservation.product] =
                                      SaveClamp(adjusted)]
                   /\ audit' = audit \o
                        ReclaimAudit(reservation, product, SaveClamp(adjusted))
                   /\ reservations' =
                        {x \in reservations : x.id # reservation.id}
                   /\ ReclaimNext(r)
    /\ UNCHANGED <<nextReservationId, now, pur, outcomes, orderVars, upd>>

\* A statement of the atomic block raises (the store is unavailable):
\* rollback, and the exception, caught nowhere, ends the pass.
ReclaimFault(r) ==
    /\ rec[r].pc = "locked"
    /\ lock' = [lock EXCEPT ![rec[r].reservation.product] = Free]
    /\ rec' = [rec EXCEPT ![r] = IdleReclaim]
    /\ UNCHANGED <<products, reservations, nextReservationId, audit, now, pur,
                   outcomes, orderVars, upd>>

Reclaim(r) ==
    \/ ReclaimFetch(r)
    \/ ReclaimLock(r)
    \/ ReclaimApply(r)

\* ------------------------------- ReservationViewSet (update, destroy)
\* ModelViewSet.update with ReservationWriteSerializer: product and quantity
\* are writable (id, user, expires_at, created_at are read-only);
\* serializer.save() writes the reservation row and nothing else.
ReservationUpdate(id, product, quantity) ==
    /\ \E x \in reservations : x.id = id
    /\ reservations' =
          {IF x.id = id
           THEN [x EXCEPT !.product = product, !.quantity = quantity]
           ELSE x : x \in reservations}
    /\ reservations' # reservations
    /\ UNCHANGED <<products, nextReservationId, audit, lock, now, pur, rec,
                   outcomes, orderVars, upd>>

\* ModelViewSet.destroy: instance.delete() and nothing else.
ReservationDestroy(id) ==
    /\ \E x \in reservations : x.id = id
    /\ reservations' = {x \in reservations : x.id # id}
    /\ UNCHANGED <<products, nextReservationId, audit, lock, now, pur, rec,
                   outcomes, orderVars, upd>>

\* The requests tried: a PATCH of the quantity alone.
ReservationUpdateAny ==
    \E x \in reservations, quantity \in Quantities \ {0} :
        ReservationUpdate(x.id, x.product, quantity)

\* One request of that kind: a PATCH that sets the quantity to MaxQuantity.
ReservationPatchAny ==
    \E x \in reservations : ReservationUpdate(x.id, x.product, MaxQuantity)

ReservationDestroyAny ==
    \E id \in 1..NumPurchasers : ReservationDestroy(id)

\* ------------------------------------------- ProductViewSet (update)
\* A field the request body leaves out.
NoValue == 0 - 1

\* The value of a field after the serializer sets the validated data on the
\* instance: the body's value, or the instance's when the body has none.
Field(given, kept) == IF given = NoValue THEN kept ELSE given

\* serializer.save(): the instance read by get_object() with the validated
\* fields set.
ProductUpdated(instance, attrs) ==
    [price |-> Field(attrs.price, instance.price),
     total_stock |-> Field(attrs.total_stock, instance.total_stock),
     available_stock |-> Field(attrs.available_stock,
                               instance.available_stock),
     reserved_stock |-> Field(attrs.reserved_stock, instance.reserved_stock)]

\* ProductSerializer.validate: the three stock fields, each from the body or
\* else from the instance, must add up.
ProductValid(instance, attrs) ==
    ProductUpdated(instance, attrs).available_stock
        + ProductUpdated(instance, attrs).reserved_stock
        = ProductUpdated(instance, attrs).total_stock

UpdateEnd(outcome) ==
    upd' = [IdleUpdate EXCEPT !.pc = "done", !.outcome = outcome]

\* The update view before perform_update: get_object() reads the row, with
\* no lock, and the serializer validates the body against it.
ProductGet(pid, attrs) ==
    /\ upd.pc = "idle"
    /\ IF ProductValid(products[pid], attrs)
       THEN upd' = [pc |-> "loaded", product_id |-> pid,
                    instance |-> products[pid], data |-> attrs,
                    outcome |-> "none"]
       ELSE UpdateEnd("invalid")
    /\ UNCHANGED <<stockVars, orderVars, audit>>

\* perform_update: serializer.save() calls Product.save on the instance the
\* request read; the UPDATE writes every column, once no other transaction
\* holds the row lock.
ProductSave ==
    /\ upd.pc = "loaded"
    /\ lock[upd.product_id] = Free
    /\ LET row == ProductUpdated(upd.instance, upd.data)
       IN  IF SaveRaises(row)
           THEN /\ UpdateEnd("error")
                /\ UNCHANGED products
           ELSE /\ UpdateEnd("updated")
                /\ products' = [products EXCEPT ![upd.product_id] =
                                   SaveClamp(row)]
    /\ UNCHANGED <<reservations, nextReservationId, lock, now, pur, rec,
                   outcomes, orderVars, audit>>

\* The bodies a product update (PUT or PATCH) may carry.
ProductGetAny ==
    \E pid \in ProductIds, price \in {NoValue, 25},
       total_stock \in {NoValue, InitialStock + 1},
       available_stock \in {NoValue, InitialStock + 1},
       reserved_stock \in {NoValue, 0} :
        ProductGet(pid, [price |-> price, total_stock |-> total_stock,
                         available_stock |-> available_stock,
                         reserved_stock |-> reserved_stock])

\* ProductAdmin (a plain ModelAdmin): the change form is a ModelForm, which
\* does not run ProductSerializer.validate; it sets the submitted fields on
\* the object it read and calls Product.save (ProductSave above).
ProductAdminGet(pid, attrs) ==
    /\ upd.pc = "idle"
    /\ upd' = [pc |-> "loaded", product_id |-> pid,
               instance |-> products[pid], data |-> attrs,
               outcome |-> "none"]
    /\ UNCHANGED <<stockVars, orderVars, audit>>

\* The stock values an admin change form may carry.
ProductAdminGetAny ==
    \E pid \in ProductIds,
       available_stock \in {InitialStock},
       reserved_stock \in {0, 1} :
        ProductAdminGet(pid, [price |-> NoValue, total_stock |-> NoValue,
                              available_stock |-> available_stock,
                              reserved_stock |-> reserved_stock])

\* No product update is between its read and its write.
UpdateQuiet == upd.pc \in {"idle", "done"}

\* ------------------------------------------------------------------ Order
\* Order.STATUS_CHOICES
Statuses ==
    {"pending", "confirmed", "processing", "shipped", "delivered", "cancelled"}

\* A transition table in which a cancelled order can be reopened.
TRANSITIONS_REOPEN ==
    [pending |-> <<"confirmed", "cancelled">>,
     confirmed |-> <<"processing", "cancelled">>,
     processing |-> <<"shipped">>,
     shipped |-> <<"delivered">>,
     delivered |-> <<>>,
     cancelled |-> <<"pending">>]

\* Order.TRANSITIONS
TRANSITIONS ==
    [pending |-> <<"confirmed", "cancelled">>,
     confirmed |-> <<"processing", "cancelled">>,
     processing |-> <<"shipped">>,
     shipped |-> <<"delivered">>,
     delivered |-> <<>>,
     cancelled |-> <<>>]

\* TRANSITIONS.get(status, [])
TransitionsFrom(status) ==
    IF status \in DOMAIN TRANSITIONS THEN TRANSITIONS[status] ELSE <<>>

\* can_transition_to looking the current status up in the list of the new one.
CanTransitionToReversed(status, new_status) ==
    \E i \in DOMAIN TransitionsFrom(new_status) :
        TransitionsFrom(new_status)[i] = status

\* Order.can_transition_to
CanTransitionTo(status, new_status) ==
    \E i \in DOMAIN TransitionsFrom(status) :
        TransitionsFrom(status)[i] = new_status

\* A field the request body leaves out.
Absent == "absent"
NoQuantity == 0 - 1

\* Order.status has default="pending": the value of a create without one.
StatusOrDefault(status) == IF status = Absent THEN "pending" ELSE status

\* Order.save taking the price for the total, whatever the quantity.
OrderTotalPriceOnly(quantity, product) == product.price

\* Order.save: self.total = self.quantity * self.product.price
OrderTotal(quantity, product) == quantity * product.price

OrderRow(id) == CHOOSE x \in orders : x.id = id
OrderIds == {x.id : x \in orders}

OrderEnd(o, outcome) ==
    ord' = [ord EXCEPT ![o] = [IdleOrder EXCEPT !.pc = "done",
                                                !.outcome = outcome]]

\* OrderWriteSerializer: the validated data of a request body.  total is one
\* of the read_only_fields, so a submitted total is dropped.
OrderValidated(body) ==
    [product |-> body.product, quantity |-> body.quantity,
     status |-> body.status]

\* OrderViewSet.perform_create: serializer.save(user=...) inserts the row with
\* the validated fields of OrderWriteSerializer (status is one of them, total
\* is read-only), then the order_created audit row is written.
OrderCreate(u, pid, quantity, status, total) ==
    /\ nextOrderId \in OrderIdSpace
    /\ LET data == OrderValidated([product |-> pid, quantity |-> quantity,
                                   status |-> status, total |-> total])
           instance == [id |-> nextOrderId, product |-> data.product,
                        quantity |-> data.quantity,
                        total |-> OrderTotal(data.quantity,
                                             products[data.product]),
                        status |-> StatusOrDefault(data.status)]
       IN  /\ orders' = orders \cup {instance}
           /\ audit' = Append(audit,
                  AuditEntry(u, "order_created", "Order", instance.id, Null,
                      [product |-> pid, quantity |-> quantity,
                       total |-> instance.total]))
    /\ nextOrderId' = nextOrderId + 1
    /\ UNCHANGED <<stockVars, upd, ord>>

\* The update view before perform_update: get_object() reads the row (and,
\* by select_related, its product) and the serializer validates the body.
OrderGet(o, u, id, status, quantity, total) ==
    /\ ord[o].pc = "idle"
    /\ id \in OrderIds
    /\ ord' = [ord EXCEPT ![o] =
                  [pc |-> "loaded", id |-> id, user |-> u,
                   instance |-> OrderRow(id),
                   product |-> products[OrderRow(id).product],
                   data |-> OrderValidated(
                               [product |-> OrderRow(id).product,
                                quantity |-> quantity, status |-> status,
                                total |-> total]),
                   outcome |-> "none"]]
    /\ UNCHANGED <<stockVars, upd, orders, nextOrderId, audit>>

\* validated_data.get('status', old_status)
NewStatus(o) ==
    IF ord[o].data.status = Absent THEN ord[o].instance.status
    ELSE ord[o].data.status

\* The row serializer.save() writes: the instance read by get_object() with
\* the validated fields set, total recomputed by Order.save.  Model.save()
\* writes every column, and inserts the row again when it is gone.
SavedOrder(o) ==
    LET quantity == IF ord[o].data.quantity = NoQuantity
                    THEN ord[o].instance.quantity ELSE ord[o].data.quantity
    IN  [ord[o].instance EXCEPT !.status = NewStatus(o),
                                !.quantity = quantity,
                                !.total = OrderTotal(quantity, ord[o].product)]

\* OrderViewSet.perform_update up to serializer.save(): no transaction is
\* open, the save is durable as soon as it returns.
OrderSave(o) ==
    /\ ord[o].pc = "loaded"
    /\ LET old_status == ord[o].instance.status
           new_status == NewStatus(o)
       IN  IF new_status # old_status /\ ~CanTransitionTo(old_status, new_status)
           THEN /\ OrderEnd(o, "rejected")
                /\ UNCHANGED orders
           ELSE /\ orders' = {x \in orders : x.id # ord[o].id} \cup {SavedOrder(o)}
                /\ IF new_status # old_status
                   THEN ord' = [ord EXCEPT ![o] = [@ EXCEPT !.pc = "saved"]]
                   ELSE OrderEnd(o, "updated")
    /\ UNCHANGED <<stockVars, upd, nextOrderId, audit>>

\* AuditLog.objects.create(action="order_status_changed", ...)
OrderAudit(o) ==
    /\ ord[o].pc = "saved"
    /\ audit' = Append(audit,
           AuditEntry(ord[o].user, "order_status_changed", "Order", ord[o].id,
               [status |-> ord[o].instance.status], [status |-> NewStatus(o)]))
    /\ OrderEnd(o, "updated")
    /\ UNCHANGED <<stockVars, upd, orders, nextOrderId>>

\* AuditLog.objects.create raises (the store is unavailable): the request
\* fails after the save.
OrderAuditFault(o) ==
    /\ ord[o].pc = "saved"
    /\ OrderEnd(o, "failed")
    /\ UNCHANGED <<stockVars, upd, orders, nextOrderId, audit>>

\* OrderViewSet is a ModelViewSet: DELETE on an order removes its row.
OrderDestroy(id) ==
    /\ id \in OrderIds
    /\ orders' = {x \in orders : x.id # id}
    /\ UNCHANGED <<stockVars, upd, nextOrderId, audit, ord>>

\* The total a request body may carry: none, or a value of the caller's.
SubmittedTotals == {NoValue, 7}

\* The bodies a create request may carry.
OrderCreateAny ==
    \E u \in Users, pid \in ProductIds, quantity \in {1},
       status \in Statuses \cup {Absent}, total \in SubmittedTotals :
        OrderCreate(u, pid, quantity, status, total)

\* The bodies an update request (PUT or PATCH) may carry.
OrderGetAny(o) ==
    \E u \in Users, id \in OrderIdSpace, status \in Statuses \cup {Absent},
       quantity \in {NoQuantity, MaxQuantity}, total \in SubmittedTotals :
        OrderGet(o, u, id, status, quantity, total)

OrderDestroyAny == \E id \in OrderIdSpace : OrderDestroy(id)

\* No order request is between its read and its last write.
OrdersQuiet == \A o \in OrderRequests : ord[o].pc \in {"idle", "done"}

\* ---------------------------------------------------------- AuditLogViewSet
\* AuditLogViewSet is a ModelViewSet over AuditLog.objects.all() with
\* AuditLogSerializer (fields = "__all__"): PUT and PATCH on an entry write
\* the fields of the body, DELETE removes the row.  An entry is addressed
\* here by its place k in the log.
AuditUpdate(k, actor) ==
    /\ k \in DOMAIN audit
    /\ audit' = [audit EXCEPT ![k] = [@ EXCEPT !.actor = actor]]
    /\ UNCHANGED <<stockVars, orderVars, upd>>

AuditDestroy(k) ==
    /\ k \in DOMAIN audit
    /\ audit' = [i \in 1..(Len(audit) - 1) |->
                    IF i < k THEN audit[i] ELSE audit[i + 1]]
    /\ UNCHANGED <<stockVars, orderVars, upd>>

\* The audit-entry requests a caller may send.
AuditUpdateAny == \E k \in DOMAIN audit : AuditUpdate(k, "edited@example.com")

AuditDestroyAny == \E k \in DOMAIN audit : AuditDestroy(k)

\* ------------------------------------------------------------------ clock
\* Time passes in steps of one time-to-live, so that a pass can start
\* before, exactly at, and after a reservation's expires_at.
TickStep == TTL

TickTo(limit) ==
    /\ now + TickStep <= limit
    /\ now' = now + TickStep
    /\ UNCHANGED <<products, reservations, nextReservationId, audit, lock, pur,
                   rec, outcomes, orderVars, upd>>

Tick == TickTo(MaxTime)

\* Purchases and reclamation passes in any interleaving, with faults.
Next ==
    \/ \E p \in Purchasers : Purchase(p)
    \/ \E p \in Purchasers, n \in DOMAIN PurchaseSteps : PurchaseFault(p, n)
    \/ \E r \in Reclaimers : Reclaim(r)
    \/ \E r \in Reclaimers : ReclaimFault(r)
    \/ Tick

Spec == Init /\ [][Next]_vars

\* scripts/chaos_test.py: the stock of one product is reset to ChaosStock
\* and ChaosProcesses purchases of one unit of it run at once.
ChaosProduct == CHOOSE i \in ProductIds : \A j \in ProductIds : i <= j

InitChaos ==
    /\ products = [i \in ProductIds |->
                      [price |-> 10 * i, total_stock |-> ChaosStock,
                       available_stock |-> ChaosStock, reserved_stock |-> 0]]
    /\ reservations = {}
    /\ nextReservationId = 1
    /\ audit = <<>>
    /\ lock = [i \in ProductIds |-> Free]
    /\ now = 0
    /\ pur = [p \in 1..ChaosProcesses |-> IdlePurchase]
    /\ rec = [r \in Reclaimers |-> IdleReclaim]
    /\ outcomes = [created |-> 0, insufficient |-> 0, error |-> 0]
    /\ orders = {}
    /\ nextOrderId = 1
    /\ ord = [o \in OrderRequests |-> IdleOrder]
    /\ upd = IdleUpdate

NextChaos ==
    \/ \E p \in 1..ChaosProcesses, u \in Users :
           PurchaseLock(p, ChaosProduct, 1, u)
    \/ \E p \in 1..ChaosProcesses : PurchaseRun(p)

SpecChaos == InitChaos /\ [][NextChaos]_vars

\* Purchases beside reclamation passes that do not overlap one another.
NoPassRunning == \A r \in Reclaimers : rec[r].pc = "idle"

NextSolo ==
    \/ \E p \in Purchasers : Purchase(p)
    \/ \E r \in Reclaimers : NoPassRunning /\ ReclaimFetch(r)
    \/ \E r \in Reclaimers : ReclaimLock(r)
    \/ \E r \in Reclaimers : ReclaimApply(r)
    \/ Tick

SpecSolo == Init /\ [][NextSolo]_vars

\* Order requests in any interleaving.
NextOrder ==
    \/ OrderCreateAny
    \/ OrderDestroyAny
    \/ \E o \in OrderRequests : OrderGetAny(o)
    \/ \E o \in OrderRequests : OrderSave(o)
    \/ \E o \in OrderRequests : OrderAudit(o)

SpecOrder == Init /\ [][NextOrder]_vars

\* Order requests one after the other, each running to its end.
NextOrderSeq ==
    \/ OrdersQuiet /\ OrderCreateAny
    \/ OrdersQuiet /\ OrderDestroyAny
    \/ \E o \in OrderRequests : OrdersQuiet /\ OrderGetAny(o)
    \/ \E o \in OrderRequests : OrderSave(o)
    \/ \E o \in OrderRequests : OrderAudit(o)

SpecOrderSeq == Init /\ [][NextOrderSeq]_vars

\* The requests that write the audit log: purchases (with faults) and order
\* requests.  The two kinds share nothing but the audit table, to which each
\* only appends, so a behaviour here is a run of purchases or a run of order
\* requests.
NoPurchaseYet == \A p \in Purchasers : pur[p].pc = "idle"
NoOrderYet == nextOrderId = 1

NextAudit ==
    \/ NoOrderYet /\ \E p \in Purchasers : Purchase(p)
    \/ NoOrderYet /\ \E p \in Purchasers, n \in DOMAIN PurchaseSteps :
                        PurchaseFault(p, n)
    \/ NoPurchaseYet /\ NextOrder

SpecAudit == Init /\ [][NextAudit]_vars

\* Order requests and product updates, one after the other: the price of a
\* product can change between two saves of an order.
NextOrderPrice ==
    \/ OrdersQuiet /\ UpdateQuiet /\ OrderCreateAny
    \/ \E o \in OrderRequests : OrdersQuiet /\ UpdateQuiet /\ OrderGetAny(o)
    \/ \E o \in OrderRequests : OrderSave(o)
    \/ \E o \in OrderRequests : OrderAudit(o)
    \/ OrdersQuiet /\ ProductGetAny
    \/ ProductSave

SpecOrderPrice == Init /\ [][NextOrderPrice]_vars

\* Purchases and reclamation without injected failures, under a scheduler
\* that invokes the Celery task again and again.  A pass that was started
\* (of the task, of the command) goes through its rows: a pass that waits
\* for a row lock again and again gets it (the lock queue is fair), and a
\* transaction that holds a row lock (of a purchase, of a reclamation) runs
\* to its end.  The command is run by hand: nothing obliges it to start.
\* The clock runs long enough for a reservation to expire after an earlier
\* one was reclaimed.
NextLive ==
    \/ \E p \in Purchasers : Purchase(p)
    \/ \E r \in Reclaimers : Reclaim(r)
    \/ TickTo(LiveMaxTime)

FairLive ==
    /\ WF_vars(ReclaimFetch("task"))
    /\ \A r \in Reclaimers : SF_vars(ReclaimLock(r))
    /\ \A r \in Reclaimers : WF_vars(ReclaimApply(r))
    /\ \A p \in Purchasers : WF_vars(PurchaseRun(p))

SpecLive == Init /\ [][NextLive]_vars /\ FairLive

\* The requests that write the audit log together with the audit-entry
\* endpoints.
NextAuditLog ==
    \/ NoOrderYet /\ \E p \in Purchasers : Purchase(p)
    \/ NoOrderYet /\ \E p \in Purchasers, n \in DOMAIN PurchaseSteps :
                        PurchaseFault(p, n)
    \/ NoPurchaseYet /\ NextOrder
    \/ AuditUpdateAny
    \/ AuditDestroyAny

SpecAuditLog == Init /\ [][NextAuditLog]_vars

\* Purchases and reclamation beside a product update through ProductViewSet.
NextProduct ==
    \/ \E p \in Purchasers : Purchase(p)
    \/ \E r \in Reclaimers : Reclaim(r)
    \/ Tick
    \/ ProductGetAny
    \/ ProductSave

SpecProduct == Init /\ [][NextProduct]_vars

\* The callers of Product.save: purchases, passes of the reclamation task
\* and the product change form of the admin.
NextSave ==
    \/ \E p \in Purchasers : Purchase(p)
    \/ Reclaim("task")
    \/ Tick
    \/ ProductAdminGetAny
    \/ ProductSave

SpecSave == Init /\ [][NextSave]_vars

\* Purchases, reclamation by both entry points, and the update and destroy
\* endpoints of ReservationViewSet.
NextReservation ==
    \/ \E p \in Purchasers : Purchase(p)
    \/ \E r \in Reclaimers : Reclaim(r)
    \/ Tick
    \/ ReservationUpdateAny
    \/ ReservationDestroyAny

SpecReservation == Init /\ [][NextReservation]_vars

\* Order requests one after the other, where the write of the audit row of
\* a status change may fail.
NextOrderFault ==
    \/ NextOrderSeq
    \/ \E o \in OrderRequests : OrderAuditFault(o)

SpecOrderFault == Init /\ [][NextOrderFault]_vars

\* Purchases of one unit and reclamation passes, under the scheduler and the
\* lock of FairLive: what matters here is who holds which row lock.
NextLock ==
    \/ \E p \in Purchasers, pid \in ProductIds, u \in Users :
           PurchaseLock(p, pid, 1, u)
    \/ \E p \in Purchasers : PurchaseRun(p)
    \/ \E r \in Reclaimers : Reclaim(r)
    \/ Tick

SpecLock == Init /\ [][NextLock]_vars /\ FairLive

\* Purchases, reclamation passes of both entry points that do not overlap
\* one another, and updates of reservations through the write interface.
NextExpiry ==
    \/ NextSolo
    \/ ReservationPatchAny

SpecExpiry == Init /\ [][NextExpiry]_vars

\* Reclamation passes run one after the other; the clock stands still while
\* a pass runs, so that no reservation expires between its fetch and its end.
NextTwice ==
    \/ \E p \in Purchasers : Purchase(p)
    \/ \E r \in Reclaimers : NoPassRunning /\ ReclaimFetch(r)
    \/ \E r \in Reclaimers : ReclaimLock(r)
    \/ \E r \in Reclaimers : ReclaimApply(r)
    \/ NoPassRunning /\ Tick

SpecTwice == Init /\ [][NextTwice]_vars

\* Purchases and reclamation passes of both entry points in any
\* interleaving.
NextStock ==
    \/ \E p \in Purchasers : Purchase(p)
    \/ \E r \in Reclaimers : Reclaim(r)
    \/ Tick

SpecStock == Init /\ [][NextStock]_vars

\* Orders are created first; purchases and reclamation passes (which do not
\* overlap one another) then run beside the stored orders.
NextFrame ==
    \/ NoPurchaseYet /\ \E u \in Users, pid \in ProductIds :
                           OrderCreate(u, pid, 1, Absent, NoValue)
    \/ NextSolo

SpecFrame == Init /\ [][NextFrame]_vars

\* ================================================================ properties
\* The step in which purchase p leaves the atomic block.
PurchaseEnds(p) == pur[p].pc = "locked" /\ pur'[p].pc = "done"

\* Purchase p leaves the atomic block with its reservation made (201).
PurchaseSucceeds(p) ==
    PurchaseEnds(p) /\ outcomes'.created = outcomes.created + 1

\* The step leaves the committed stock, reservations and audit log alone.
NothingCommitted ==
    /\ products' = products
    /\ reservations' = reservations
    /\ audit' = audit

\* The audit log grows by exactly the n entries that end audit'.
AuditAppended(n) ==
    /\ Len(audit') = Len(audit) + n
    /\ SubSeq(audit', 1, Len(audit)) = audit

\* C1 (SpecChaos): with available_stock = ChaosStock, reserved_stock = 0 and
\* ChaosProcesses > ChaosStock concurrent purchases of one unit, never more
\* than ChaosStock succeed, and once all have ended exactly ChaosStock have
\* succeeded, the other ChaosProcesses - ChaosStock have failed with
\* insufficient stock, and the product has available_stock = 0 and
\* reserved_stock = ChaosStock.
NoOversell ==
    /\ ChaosProcesses > ChaosStock
    /\ outcomes.created <= ChaosStock
    /\ (\A p \in DOMAIN pur : pur[p].pc = "done") =>
          /\ outcomes.created = ChaosStock
          /\ outcomes.insufficient = ChaosProcesses - ChaosStock
          /\ outcomes.error = 0
          /\ products[ChaosProduct].available_stock = 0
          /\ products[ChaosProduct].reserved_stock = ChaosStock
          /\ Cardinality(reservations) = ChaosStock

\* C1 witness: every chaos process has ended, some with a reservation and
\* some with insufficient stock.
NoOversellWitness ==
    /\ DOMAIN pur = 1..ChaosProcesses
    /\ \A p \in DOMAIN pur : pur[p].pc = "done"
    /\ outcomes.created > 0
    /\ outcomes.insufficient > 0

\* C2 (Spec): in every committed state every product has
\* available_stock + reserved_stock = total_stock, and neither field negative.
StockInvariant ==
    \A i \in ProductIds :
        /\ products[i].available_stock + products[i].reserved_stock
               = products[i].total_stock
        /\ products[i].available_stock >= 0
        /\ products[i].reserved_stock >= 0

\* C2 witness: a reservation has been reclaimed while another is still held.
StockInvariantWitness ==
    /\ \E k \in DOMAIN audit : audit[k].action = "reservation_expired"
    /\ \E i \in ProductIds : products[i].reserved_stock > 0
    /\ outcomes.created >= 2

\* C3 (Spec): a successful purchase of q units had available_stock >= q,
\* takes exactly q off available_stock, adds exactly q to reserved_stock, and
\* inserts exactly one reservation, for that product, of quantity q, with
\* expires_at = the time of the purchase + 10 minutes.
SuccessfulPurchaseEffects ==
    [][\A p \in Purchasers : PurchaseSucceeds(p) =>
          LET pid == pur[p].product_id
              q == pur[p].quantity
          IN  /\ products[pid].available_stock >= q
              /\ products'[pid].available_stock
                     = products[pid].available_stock - q
              /\ products'[pid].reserved_stock
                     = products[pid].reserved_stock + q
              /\ products'[pid].total_stock = products[pid].total_stock
              /\ \A j \in ProductIds \ {pid} : products'[j] = products[j]
              /\ Cardinality(reservations' \ reservations) = 1
              /\ reservations \subseteq reservations'
              /\ \A x \in reservations' \ reservations :
                    /\ x.product = pid
                    /\ x.quantity = q
                    /\ x.expires_at = now + TTL
                    /\ \A y \in reservations : y.id # x.id
      ]_vars

\* C3 witness: a purchase of MaxQuantity units has been committed.
SuccessfulPurchaseWitness ==
    \E x \in reservations :
        /\ x.quantity = MaxQuantity
        /\ x.expires_at = now + TTL
        /\ products[x.product].reserved_stock = MaxQuantity
        /\ products[x.product].available_stock = InitialStock - MaxQuantity

\* C4 (Spec): a purchase whose quantity exceeds the product's available_stock
\* ends with the insufficient-stock validation error and leaves the stock,
\* the reservations and the audit log as they were.
InsufficientStockRejected ==
    [][\A p \in Purchasers :
          (/\ PurchaseEnds(p)
           /\ pur[p].quantity > products[pur[p].product_id].available_stock)
          => /\ outcomes'.insufficient = outcomes.insufficient + 1
             /\ outcomes'.created = outcomes.created
             /\ NothingCommitted
      ]_vars

\* C4 witness: a purchase was rejected for stock that an earlier one holds.
InsufficientStockWitness ==
    /\ outcomes.insufficient > 0
    /\ outcomes.created > 0
    /\ Cardinality(reservations) = outcomes.created
    /\ Len(audit) = 2 * outcomes.created

\* C5 (Spec): a purchase ends either with all of its writes committed (the
\* stock adjustment, one reservation, two audit rows) or, when a statement
\* after the stock check failed, with the stock, the reservations and the
\* audit log as they were.
PurchaseAllOrNothing ==
    [][\A p \in Purchasers : PurchaseEnds(p) =>
          \/ /\ outcomes'.created = outcomes.created
             /\ NothingCommitted
          \/ /\ PurchaseSucceeds(p)
             /\ products'[pur[p].product_id]
                    = Adjusted(products[pur[p].product_id], pur[p].quantity)
             /\ Cardinality(reservations' \ reservations) = 1
             /\ reservations \subseteq reservations'
             /\ AuditAppended(2)
      ]_vars

\* C5 witness: a purchase failed after its stock check and nothing of it is
\* committed, beside a purchase that went through.
PurchaseAllOrNothingWitness ==
    /\ outcomes.error > 0
    /\ outcomes.created = 1
    /\ Cardinality(reservations) = 1
    /\ Len(audit) = 2

\* The entries a step appends to the audit log.
NewAudit == SubSeq(audit', Len(audit) + 1, Len(audit'))

\* C6 (SpecAudit): a successful purchase appends exactly two audit entries,
\* stock_adjusted for the product and reservation_created for the
\* reservation; a failed purchase appends none; an order update appends
\* nothing when it is rejected and nothing when the status stays, and a
\* status change appends exactly one entry, order_status_changed with
\* old_value = {status: old} and new_value = {status: new}.
AuditCompleteness ==
    [][/\ \A p \in Purchasers : PurchaseEnds(p) =>
             IF PurchaseSucceeds(p)
             THEN /\ AuditAppended(2)
                  /\ NewAudit[1].action = "stock_adjusted"
                  /\ NewAudit[1].object_type = "Product"
                  /\ NewAudit[1].object_id = pur[p].product_id
                  /\ NewAudit[2].action = "reservation_created"
                  /\ NewAudit[2].object_type = "Reservation"
                  /\ \E x \in reservations' \ reservations :
                         NewAudit[2].object_id = x.id
             ELSE audit' = audit
       /\ \A o \in OrderRequests :
             /\ (ord[o].pc = "loaded" /\ ord'[o].pc # "loaded")
                    => audit' = audit
             /\ (ord[o].pc = "loaded" /\ ord'[o].pc = "done"
                     /\ ord'[o].outcome = "updated")
                    => \A x \in orders' : x.id = ord[o].id =>
                           x.status = ord[o].instance.status
             /\ (ord[o].pc = "saved" /\ ord'[o].pc # "saved")
                    => /\ ord'[o].outcome = "updated"
                       /\ ord[o].data.status # ord[o].instance.status
                       /\ AuditAppended(1)
                       /\ NewAudit[1].action = "order_status_changed"
                       /\ NewAudit[1].object_type = "Order"
                       /\ NewAudit[1].object_id = ord[o].id
                       /\ NewAudit[1].old_value
                              = [status |-> ord[o].instance.status]
                       /\ NewAudit[1].new_value
                              = [status |-> ord[o].data.status]
      ]_vars

\* C6 witness: one order update changed the status and another was rejected,
\* and the log holds the creation and exactly one order_status_changed entry.
AuditCompletenessWitness ==
    /\ \E o \in OrderRequests : ord[o].outcome = "updated"
    /\ \E o \in OrderRequests : ord[o].outcome = "rejected"
    /\ Len(audit) = 2
    /\ audit[2].action = "order_status_changed"
    /\ audit[2].old_value # audit[2].new_value

\* C7 (SpecSolo): a reservation of quantity Q made by purchase and reclaimed
\* after its expiry, by the task or by the command: the reclamation finds the
\* reservation stored and expired, adds exactly Q to available_stock, takes
\* exactly Q off reserved_stock (which stays >= 0), deletes the reservation
\* and appends exactly two audit entries, stock_adjusted and
\* reservation_expired, both with actor "System"; and once every reservation
\* has been reclaimed each product is back at its stock before the purchases.
ReservationRoundTrip ==
    /\ [](reservations = {} =>
             \A i \in ProductIds :
                 /\ products[i].available_stock = InitialStock
                 /\ products[i].reserved_stock = 0)
    /\ [][\A r \in Reclaimers :
             (rec[r].pc = "locked" /\ rec'[r].pc # "locked") =>
                 LET reservation == rec[r].reservation
                     pid == reservation.product
                     Q == reservation.quantity
                 IN  /\ reservation \in reservations
                     /\ reservation.expires_at < now
                     /\ products'[pid].available_stock
                            = products[pid].available_stock + Q
                     /\ products'[pid].reserved_stock
                            = products[pid].reserved_stock - Q
                     /\ products'[pid].reserved_stock >= 0
                     /\ products'[pid].total_stock = products[pid].total_stock
                     /\ \A j \in ProductIds \ {pid} : products'[j] = products[j]
                     /\ reservations' = reservations \ {reservation}
                     /\ AuditAppended(2)
                     /\ NewAudit[1].action = "stock_adjusted"
                     /\ NewAudit[1].actor = "System"
                     /\ NewAudit[1].object_type = "Product"
                     /\ NewAudit[1].object_id = pid
                     /\ NewAudit[2].action = "reservation_expired"
                     /\ NewAudit[2].actor = "System"
                     /\ NewAudit[2].object_type = "Reservation"
                     /\ NewAudit[2].object_id = reservation.id
         ]_vars

\* C7 witness: a reservation of MaxQuantity units was made and reclaimed, and
\* its product is back at its initial stock.
ReservationRoundTripWitness ==
    /\ reservations = {}
    /\ Len(audit) = 4
    /\ audit[2].action = "reservation_created"
    /\ audit[2].new_value.quantity = MaxQuantity
    /\ audit[4].action = "reservation_expired"
    /\ audit[4].object_id = audit[2].object_id
    /\ audit[3].actor = "System"
    /\ \A i \in ProductIds : products[i].available_stock = InitialStock

\* The step in which order request o leaves perform_update's status check.
OrderDecides(o) == ord[o].pc = "loaded" /\ ord'[o].pc # "loaded"

\* The request body of o names a status.
StatusRequested(o) == ord[o].data.status # Absent

\* The pair (current, requested) is listed in the transition table.
Listed(current, requested) ==
    \E i \in DOMAIN TRANSITIONS[current] : TRANSITIONS[current][i] = requested

\* Request o ends with the invalid-transition error and nothing is written.
OrderRejected(o) ==
    /\ ord'[o].pc = "done"
    /\ ord'[o].outcome = "rejected"
    /\ orders' = orders
    /\ audit' = audit

\* C8 as stated (SpecOrder): for every pair (current status, requested
\* status) not listed in the transition table, the request for the order's
\* own current status included, the update fails with the invalid-transition
\* error and the stored order is unchanged.
UnlistedPairRejected ==
    [][\A o \in OrderRequests :
          (/\ OrderDecides(o)
           /\ StatusRequested(o)
           /\ ~Listed(ord[o].instance.status, ord[o].data.status))
          => OrderRejected(o)
      ]_vars

\* C8 amended (SpecOrder): for every pair (current status, requested status)
\* with requested # current that is not listed in the transition table, the
\* update fails with the invalid-transition error and writes nothing; a
\* request for the order's own current status is not rejected, in any status
\* (delivered and cancelled included): it is saved with the status as it was
\* and without an audit entry.
UnlistedChangeRejected ==
    [][\A o \in OrderRequests :
          (/\ OrderDecides(o)
           /\ StatusRequested(o)
           /\ ~Listed(ord[o].instance.status, ord[o].data.status))
          => IF ord[o].data.status # ord[o].instance.status
             THEN OrderRejected(o)
             ELSE /\ ord'[o].pc = "done"
                  /\ ord'[o].outcome = "updated"
                  /\ audit' = audit
                  /\ \E x \in orders' :
                        /\ x.id = ord[o].id
                        /\ x.status = ord[o].instance.status
      ]_vars

\* C8 witness: on an order stored in a terminal status, one request (for
\* another status) was rejected and one (for the status it has) was saved.
UnlistedChangeWitness ==
    /\ \E x \in orders : x.status \in {"delivered", "cancelled"}
    /\ \E o \in OrderRequests : ord[o].outcome = "rejected"
    /\ \E o \in OrderRequests : ord[o].outcome = "updated"
    /\ Len(audit) = 1
    /\ audit[1].action = "order_created"

\* The six transitions of the order lifecycle.
ValidPairs ==
    {<<"pending", "confirmed">>, <<"pending", "cancelled">>,
     <<"confirmed", "processing">>, <<"confirmed", "cancelled">>,
     <<"processing", "shipped">>, <<"shipped", "delivered">>}

\* C9 (SpecOrderSeq): can_transition_to is true exactly for the six pairs of
\* ValidPairs, over all pairs of statuses and so for the pair of every update
\* request; a status change is saved exactly when its pair is one of the six;
\* and an order in delivered or cancelled keeps its status as long as it is
\* stored.
TransitionTable ==
    /\ [](/\ \A current \in Statuses, new \in Statuses :
                CanTransitionTo(current, new) <=> <<current, new>> \in ValidPairs
          /\ \A o \in OrderRequests :
                (ord[o].pc = "loaded" /\ StatusRequested(o)) =>
                    (CanTransitionTo(ord[o].instance.status, ord[o].data.status)
                        <=> <<ord[o].instance.status, ord[o].data.status>>
                                \in ValidPairs))
    /\ [][/\ \A o \in OrderRequests :
                (/\ OrderDecides(o)
                 /\ StatusRequested(o)
                 /\ ord[o].data.status # ord[o].instance.status)
                => (ord'[o].outcome # "rejected"
                       <=> <<ord[o].instance.status, ord[o].data.status>>
                               \in ValidPairs)
          /\ \A x \in orders : \A y \in orders' :
                (y.id = x.id /\ x.status \in {"delivered", "cancelled"})
                => y.status = x.status
         ]_vars

\* C9 witness: an order went from shipped to delivered by an update, and an
\* update of the delivered order to another status was rejected.
TransitionTableWitness ==
    /\ \E x \in orders : x.status = "delivered"
    /\ \E k \in DOMAIN audit :
          /\ audit[k].action = "order_status_changed"
          /\ audit[k].old_value = [status |-> "shipped"]
          /\ audit[k].new_value = [status |-> "delivered"]
    /\ \E o \in OrderRequests : ord[o].outcome = "rejected"

\* C10 as stated (SpecOrder): every order the create operation inserts has
\* status pending, whatever status the request body carries, and no step of
\* the order interface removes an order.
CreatedPendingNeverDeleted ==
    [][/\ nextOrderId' # nextOrderId =>
             \A x \in orders' \ orders : x.status = "pending"
       /\ \A x \in orders : \E y \in orders' : y.id = x.id
      ]_vars

\* C11 as stated (SpecOrder): under concurrent update requests on one order,
\* every change of the order's stored status from one value to the next is a
\* pair listed in the transition table.
CommittedStepsListed ==
    [][\A x \in orders : \A y \in orders' :
          (y.id = x.id /\ y.status # x.status) => Listed(x.status, y.status)
      ]_vars

\* The step in which order request o writes the order row.
OrderSaves(o) ==
    /\ ord[o].pc = "loaded"
    /\ ord'[o].pc = "saved" \/ (ord'[o].pc = "done" /\ ord'[o].outcome = "updated")

\* C12 (SpecOrderPrice): after every save of an order (its creation, a
\* status-only update, any other update) the stored total is the stored
\* quantity times the price the product has at the save, whatever total the
\* request body carried.
TotalRecomputed ==
    [][/\ nextOrderId' # nextOrderId =>
             \A y \in orders' \ orders :
                 y.total = y.quantity * products[y.product].price
       /\ \A o \in OrderRequests : OrderSaves(o) =>
             \E y \in orders' :
                 /\ y.id = ord[o].id
                 /\ y.total = y.quantity * products[y.product].price
      ]_vars

\* C12 witness: an order of MaxQuantity units stored with the total of a
\* price that was changed after the order was created.
TotalRecomputedWitness ==
    /\ upd.outcome = "updated"
    /\ \E y \in orders :
          /\ y.quantity = MaxQuantity
          /\ products[y.product].price = 25
          /\ y.total = MaxQuantity * 25

\* The step in which reclaimer r leaves the atomic block of one reservation.
ReclaimEnds(r) == rec[r].pc = "locked" /\ rec'[r].pc # "locked"

\* C13 as stated (Spec): a run that holds the product lock for a reservation
\* another run has already deleted does nothing for it: the product's stock
\* stays, no audit entry is appended, and the run goes on with the
\* reservations it has left (no error ends it).
SecondReclaimNoOp ==
    [][\A r \in Reclaimers :
          (ReclaimEnds(r) /\ rec[r].reservation \notin reservations) =>
              /\ products' = products
              /\ audit' = audit
              /\ rec'[r].expired = rec[r].expired
      ]_vars

\* The reclamation of one reservation by r fails: its block ends and the
\* reservation it was reclaiming is still stored, with the stock as it was.
ReclaimFails(r) ==
    /\ ReclaimEnds(r)
    /\ rec[r].reservation \in reservations'
    /\ products' = products

\* C14 as stated (Spec): within one pass, a failure while reclaiming one
\* reservation leaves what the pass has committed before in place (stock,
\* deleted reservations, audit rows) and the pass goes on with the
\* reservations it has left.
ReclaimFailureIsolated ==
    [][\A r \in Reclaimers : ReclaimFails(r) =>
          /\ reservations' = reservations
          /\ audit' = audit
          /\ rec'[r].expired = rec[r].expired
          /\ rec[r].expired # {} => rec'[r].pc = "running"
      ]_vars

\* The reservation with this id is stored and its expires_at has passed.
ExpiredStored(id) ==
    \E x \in reservations : x.id = id /\ x.expires_at < now

\* C15 as stated (SpecLive): with reclamation invoked again and again, every
\* stored reservation whose expires_at has passed is eventually deleted.
ExpiredEventuallyReclaimed ==
    \A id \in 1..NumPurchasers :
        ExpiredStored(id) ~> ~(\E x \in reservations : x.id = id)

\* C16 as stated (SpecAuditLog): over the operations the system exposes, the
\* audit-entry endpoints included, the log of every state extends the log of
\* the state before: no entry is modified, none is removed.
AuditAppendOnly ==
    [][/\ Len(audit') >= Len(audit)
       /\ SubSeq(audit', 1, Len(audit)) = audit
      ]_vars

\* The step changes the stock fields of product i.
StockWritten(i) ==
    \/ products'[i].available_stock # products[i].available_stock
    \/ products'[i].reserved_stock # products[i].reserved_stock

\* C17 as stated (SpecProduct): every write to a product's available_stock or
\* reserved_stock is made by a unit of work that holds the product's row
\* lock since before it read the stock, a product update through
\* ProductViewSet included; so the stock a writer read is the committed stock
\* it writes over.
StockWrittenUnderLock ==
    [][\A i \in ProductIds : StockWritten(i) =>
          /\ lock[i] # Free
          /\ (upd.pc = "loaded" /\ upd'.pc = "done" /\ upd.product_id = i)
                 => /\ upd.instance.available_stock
                           = products[i].available_stock
                    /\ upd.instance.reserved_stock
                           = products[i].reserved_stock
      ]_vars

\* The row breaks available_stock + reserved_stock = total_stock once its
\* negative stock values are taken as 0.
Inconsistent(row) ==
    Max(0, row.available_stock) + Max(0, row.reserved_stock) # row.total_stock

\* C18 (SpecSave): a save of a product row that is inconsistent after the
\* clamping of negative values raises and leaves the stored product as it
\* was, whether the row comes from the admin change form or from the release
\* of a reservation by the reclamation task (whose atomic block then rolls
\* back); every stored row is consistent.
InconsistentSaveRejected ==
    [][/\ (/\ upd.pc = "loaded"
           /\ upd'.pc = "done"
           /\ Inconsistent(ProductUpdated(upd.instance, upd.data)))
              => (upd'.outcome = "error" /\ products' = products)
       /\ (/\ ReclaimEnds("task")
           /\ Inconsistent(Released(rec["task"].product,
                                    rec["task"].reservation.quantity)))
              => /\ products' = products
                 /\ reservations' = reservations
                 /\ audit' = audit
       /\ \A i \in ProductIds : ~Inconsistent(products'[i])
      ]_vars

\* A save has raised the invariant error and the stored row is consistent.
InconsistentSaveWitness ==
    /\ upd.pc = "done"
    /\ upd.outcome = "error"
    /\ \A i \in ProductIds : ~Inconsistent(products[i])

\* C19 as stated (SpecLive): whichever entry point reclaims a reservation of
\* quantity q from a product whose reserved_stock is r, the step succeeds and
\* moves exactly min(q, r) units from reserved_stock to available_stock,
\* also when q > r; the reservation is gone afterwards and the pass keeps
\* the reservations it has left.
ReleaseClampBoth ==
    [][\A r \in Reclaimers : ReclaimEnds(r) =>
          LET reservation == rec[r].reservation
              i == reservation.product
              moved == Min(reservation.quantity, products[i].reserved_stock)
          IN  /\ products'[i].available_stock
                     = products[i].available_stock + moved
              /\ products'[i].reserved_stock
                     = products[i].reserved_stock - moved
              /\ reservation \notin reservations'
              /\ rec'[r].expired = rec[r].expired
      ]_vars

\* The sum of the quantities of a set of reservations.
RECURSIVE SumQuantity(_)
SumQuantity(S) ==
    IF S = {} THEN 0
    ELSE LET x == CHOOSE y \in S : TRUE
         IN  x.quantity + SumQuantity(S \ {x})

\* The units held by the reservations that exist for product i.
HeldQuantity(i) == SumQuantity({x \in reservations : x.product = i})

\* C20 as stated (SpecReservation): in every committed state each product's
\* reserved_stock equals the sum of the quantities of the reservations that
\* exist for it, and a step that removes a reservation returns its quantity
\* from reserved_stock to available_stock in the same step.
ReservedMatchesHolds ==
    /\ [](\A i \in ProductIds : products[i].reserved_stock = HeldQuantity(i))
    /\ [][\A x \in reservations :
             (\A y \in reservations' : y.id # x.id) =>
                 /\ products'[x.product].reserved_stock
                        = products[x.product].reserved_stock - x.quantity
                 /\ products'[x.product].available_stock
                        = products[x.product].available_stock + x.quantity
         ]_vars

\* C21 as stated (SpecOrderFault): when the order_status_changed audit entry
\* of an update cannot be written, the status the update saved is rolled
\* back: the order has the status it had before the request.
StatusChangeRolledBack ==
    [][\A o \in OrderRequests :
          (ord[o].pc = "saved" /\ ord'[o].outcome = "failed") =>
              \A x \in orders' :
                  x.id = ord[o].id => x.status = ord[o].instance.status
      ]_vars

\* The products whose row lock a unit of work holds.
LocksHeld(owner) == {i \in ProductIds : lock[i] = owner}

\* The purchases that are inside their atomic block on product i.
PurchasesLocked(i) ==
    {p \in Purchasers : pur[p].pc = "locked" /\ pur[p].product_id = i}

\* C22 (SpecLock): a reclamation pass holds at most one product lock, and
\* none between two reservations; a locked product has exactly one purchase
\* or one pass inside its atomic block on it.  Under a fair lock and fair
\* scheduling every purchase that holds its lock ends (commit or failure)
\* and every started reclamation pass ends: nothing deadlocks.
OneLockAtATime ==
    /\ [](/\ \A r \in Reclaimers :
                /\ Cardinality(LocksHeld(r)) <= 1
                /\ rec[r].pc # "locked" => LocksHeld(r) = {}
                /\ rec[r].pc = "locked"
                       => LocksHeld(r) = {rec[r].reservation.product}
          /\ \A i \in ProductIds :
                /\ lock[i] = "purchase" => Cardinality(PurchasesLocked(i)) = 1
                /\ lock[i] # "purchase" => PurchasesLocked(i) = {})
    /\ \A p \in Purchasers : (pur[p].pc = "locked") ~> (pur[p].pc = "done")
    /\ \A r \in Reclaimers : (rec[r].pc # "idle") ~> (rec[r].pc = "idle")

\* Both reclamation passes are inside an atomic block at once, each holding
\* the lock of a different product, one of them with a reservation left.
OneLockAtATimeWitness ==
    /\ rec["task"].pc = "locked"
    /\ rec["command"].pc = "locked"
    /\ rec["task"].reservation.product # rec["command"].reservation.product
    /\ rec["task"].expired # {}

\* The reservation with this id is stored before the step and not after it.
ReservationRemoved(id) ==
    /\ \E x \in reservations : x.id = id
    /\ \A y \in reservations' : y.id # id

\* C23 (SpecExpiry): the rows a pass started at time t (the value of now at
\* its fetch) works on all have expires_at < t; a pass takes its rows from
\* those and from nowhere else; a reservation is removed only by a pass that
\* holds it, and its expires_at is in the past; a purchase at time c sets
\* expires_at = c + TTL; and no step, an update through the write interface
\* included, changes the expires_at of a stored reservation.
OnlyExpiredReclaimed ==
    [][/\ \A r \in Reclaimers :
             /\ rec[r].pc = "idle"
                    => \A x \in rec'[r].expired : x.expires_at < now
             /\ rec[r].pc # "idle" => rec'[r].expired \subseteq rec[r].expired
             /\ (rec[r].pc = "running" /\ rec'[r].pc = "locked")
                    => rec'[r].reservation \in rec[r].expired
       /\ \A x \in reservations :
             ReservationRemoved(x.id) =>
                 /\ x.expires_at < now
                 /\ \E r \in Reclaimers : /\ rec[r].pc = "locked"
                                          /\ rec[r].reservation.id = x.id
       /\ \A x \in reservations' :
             (\A y \in reservations : y.id # x.id)
                 => x.expires_at = now + TTL
       /\ \A x \in reservations, y \in reservations' :
             x.id = y.id => y.expires_at = x.expires_at
      ]_vars

\* A pass has reclaimed an expired reservation and left a stored one whose
\* expires_at is the present time, not yet past.
OnlyExpiredReclaimedWitness ==
    /\ \E k \in DOMAIN audit : audit[k].action = "reservation_expired"
    /\ \E x \in reservations : x.expires_at = now
    /\ \A r \in Reclaimers : rec[r].pc = "idle"

\* C24 (SpecTwice): when a reclamation pass ends, no stored reservation
\* matches the expired filter any more; so the second of two passes in a row
\* finds nothing: a pass that is started while no reservation matches takes
\* up no reservation (it is over at once), and products, reservations and
\* the audit log are changed by passes only while they hold a reservation.
ReclaimTwiceSame ==
    [][\A r \in Reclaimers :
          /\ (rec[r].pc = "locked" /\ rec'[r].pc = "idle")
                 => \A x \in reservations' : ~(x.expires_at < now')
          /\ (rec[r].pc = "idle" /\ ExpiredAt(now) = {})
                 => rec'[r].pc = "idle"
          /\ (NoPassRunning /\ pur' = pur)
                 => /\ products' = products
                    /\ reservations' = reservations
                    /\ audit' = audit
      ]_vars

\* A pass has reclaimed an expired reservation and ended; a reservation that
\* is not expired is stored, and nothing matches the filter of a second pass.
ReclaimTwiceSameWitness ==
    /\ \E k \in DOMAIN audit : audit[k].action = "reservation_expired"
    /\ NoPassRunning
    /\ reservations # {}
    /\ ExpiredAt(now) = {}

\* C25 as stated (Spec): every stored reservation has quantity >= 1, and a
\* purchase that ends with quantity 0 has created no reservation and written
\* no audit entry.
ReservationQuantityPositive ==
    /\ [](\A x \in reservations : x.quantity >= 1)
    /\ [][\A p \in Purchasers :
             (PurchaseEnds(p) /\ pur[p].quantity <= 0) =>
                 /\ reservations' = reservations
                 /\ audit' = audit
         ]_vars

\* The stock_adjusted entries of product i, in commit order.
IsStockEntry(e, i) ==
    e.action = "stock_adjusted" /\ e.object_type = "Product" /\ e.object_id = i

StockEntries(i) == SelectSeq(audit, LAMBDA e : IsStockEntry(e, i))

\* The stock snapshot of the stored row of product i.
StockOf(row) == StockValue(row.available_stock, row.reserved_stock)

\* C26 (SpecStock): under any interleaving of purchases and reclamations, each
\* stock_adjusted entry is appended in the step that commits its stock
\* change, with old_value the product's stock before the step and new_value
\* its stock after, and no stock changes without such an entry; in commit
\* order the new_value of each entry of a product is the old_value of the
\* next, and the last new_value is the product's current stock.
AuditSnapshotsChain ==
    /\ [](\A i \in ProductIds :
             LET s == StockEntries(i)
             IN  /\ \A k \in 1..(Len(s) - 1) :
                        s[k].new_value = s[k + 1].old_value
                 /\ Len(s) > 0 => s[Len(s)].new_value = StockOf(products[i]))
    /\ [][\A i \in ProductIds :
             /\ \A k \in (Len(audit) + 1)..Len(audit') :
                    IsStockEntry(audit'[k], i) =>
                        /\ audit'[k].old_value = StockOf(products[i])
                        /\ audit'[k].new_value = StockOf(products'[i])
             /\ StockWritten(i) =>
                    \E k \in (Len(audit) + 1)..Len(audit') :
                        IsStockEntry(audit'[k], i)
         ]_vars

\* A product has a purchase's stock_adjusted entry followed by a
\* reclamation's.
AuditSnapshotsChainWitness ==
    \E i \in ProductIds :
        /\ Len(StockEntries(i)) >= 2
        /\ StockEntries(i)[1].actor # "System"
        /\ StockEntries(i)[Len(StockEntries(i))].actor = "System"
        /\ StockEntries(i)[1].old_value # StockEntries(i)[1].new_value

\* Every product but i is stored after the step as before it.
OtherProductsKept(i) ==
    \A j \in ProductIds \ {i} : products'[j] = products[j]

\* C27 (SpecFrame): the step that ends a purchase on product i, and the step
\* that ends the reclamation of a reservation on product i, leave i's
\* total_stock and every other product as they are, add or remove no
\* reservation but the purchase's new one or the reclaimed one, and leave
\* every order as it is.
StockOperationFrame ==
    [][/\ \A p \in Purchasers : PurchaseEnds(p) =>
             /\ products'[pur[p].product_id].total_stock
                    = products[pur[p].product_id].total_stock
             /\ OtherProductsKept(pur[p].product_id)
             /\ reservations \subseteq reservations'
             /\ \A x \in reservations' \ reservations :
                    x.id = nextReservationId /\ x.product = pur[p].product_id
             /\ orders' = orders
       /\ \A r \in Reclaimers : ReclaimEnds(r) =>
             /\ products'[rec[r].reservation.product].total_stock
                    = products[rec[r].reservation.product].total_stock
             /\ OtherProductsKept(rec[r].reservation.product)
             /\ reservations' \subseteq reservations
             /\ \A x \in reservations \ reservations' :
                    x.id = rec[r].reservation.id
             /\ orders' = orders
      ]_vars

\* An order is stored, a purchase has made a reservation that is still
\* there, and another reservation has been reclaimed.
StockOperationFrameWitness ==
    /\ orders # {}
    /\ reservations # {}
    /\ \E k \in DOMAIN audit : audit[k].action = "reservation_expired"
====
